---- MODULE Spec2Model ----
(***************************************************************************)
(* State-machine model of the scriptlets of this repository:               *)
(*   trusted-click-elem  (src/unnamed/part_000)                            *)
(*   json-prune          (src/src/scriptlets/json-prune.js)                *)
(*   prevent-requestAnimationFrame                                         *)
(*                       (src/src/scriptlets/prevent-requestAnimationFrame.js) *)
(*   remove-attr         (src/src/scriptlets/remove-attr.js)               *)
(* and of json-prune injected more than once into the same page.           *)
(* JavaScript strings are modelled as tuples of one-character strings, so  *)
(* that split, trim and indexOf are computed the way the code computes     *)
(* them.                                                                   *)
(***************************************************************************)
EXTENDS Integers, Sequences, FiniteSets, TLC

VARIABLES
    \* ---- trusted-click-elem: arguments and environment
    selectors,        \* the `selectors` argument
    hrefMatch,        \* the `hrefMatch` argument (<<>> when omitted)
    cookieMatch,      \* the `cookieMatch` argument (<<>> when omitted)
    href,             \* window.location.href
    cookie,           \* document.cookie
    \* ---- trusted-click-elem: closure state
    tcPc,             \* "ready" before the scriptlet body ran, "returned" after
    selectorsQueue,   \* const selectorsQueue
    currentSelector,  \* let currentSelector
    observerInstalled,\* new MutationObserver(...).observe(...) was executed
    observing,        \* the observer is connected
    timerSet,         \* setTimeout(...) was executed
    timedOut,         \* the timer callback has run
    \* ---- the document and the host's queues
    doc,              \* elements currently in the document
    pending,          \* mutation records are queued for the observer
    delivered,        \* the document as seen by each delivered change batch
    log,              \* clicks, hits and the timeout, in the order they happened
    errors,           \* exceptions that escaped a callback into the host page
    \* ---- json-prune
    propsToRemove,        \* the `propsToRemove` argument
    requiredInitialProps, \* the `requiredInitialProps` argument
    jpPc,                 \* "ready", "installed", or "called" (inside a JSON.parse call)
    jpArg,                \* what nativeParse produced in the last call
    jpRet,                \* what the wrapper returned in the last call
    jpNeeded,             \* what isPruningNeeded returned in the last call
    jpHit,                \* hit(source) calls made by the last call
    jpLogged,             \* log(...) calls made by the last call
    \* ---- prevent-requestAnimationFrame
    match,            \* the `match` argument (Undefined when omitted)
    rafPc,            \* "ready", "installed", "requested" or "ran"
    rafCallback,      \* text of the callback of the last requestAnimationFrame call
    rafArgs,          \* further arguments of the last call
    rafNative,        \* what the last call handed to nativeRequestAnimationFrame
    rafHit,           \* the hit(...) call made by the last call
    rafRan,           \* the function the native scheduler ran for the last call
    \* ---- remove-attr: arguments
    attrs,            \* the `attrs` argument
    selector,         \* the `selector` argument (Undefined when omitted)
    applying,         \* the `applying` argument (Undefined when omitted)
    \* ---- remove-attr: the document and what the scriptlet registered
    raPc,             \* "ready" before removeAttr ran, "installed" after
    attrNames,        \* `attrs` as rmattr sees it: the list assigned at line 72
    nodeSelector,     \* `selector` as rmattr sees it, after lines 73-75
    lifecycle,        \* "loading", "interactive" (before DOMContentLoaded),
                      \* "domready" (after it), "complete" (before load), "loaded"
    installedAt,      \* the lifecycle value removeAttr ran at
    dclListener,      \* rmattr is registered for DOMContentLoaded
    loadListener,     \* run is registered for load
    watchers,         \* observers bound by observeDOMChanges
    raPending,        \* mutation records are queued for the observer
    nodeAttrs,        \* the attributes each node of the document carries
    runs,             \* rmattr runs so far, by what triggered them
    raHits,           \* hit(source) calls so far
    raLogged,         \* console.log calls of the catch clause so far
    pageChanges,      \* attribute changes the page has made so far
    \* ---- json-prune injected several times into one page
    installs,         \* per install, in order: its propsToRemove and the
                      \* function its nativeParse captured (0 is the native one)
    stPc,             \* "ready", or "called" (inside a JSON.parse call)
    stArg,            \* what the native parser produced in the last call
    stRet,            \* what JSON.parse returned in the last call
    stHits,           \* installs whose wrapper called hit in the last call, in order
    stNative          \* calls of the native parser made by the last call

clickVars == <<selectors, hrefMatch, cookieMatch, href, cookie, tcPc,
               selectorsQueue, currentSelector, observerInstalled, observing,
               timerSet, timedOut, doc, pending, delivered, log, errors>>

pruneVars == <<propsToRemove, requiredInitialProps, jpPc, jpArg,
               jpRet, jpNeeded, jpHit, jpLogged>>

rafVars == <<match, rafPc, rafCallback, rafArgs, rafNative, rafHit, rafRan>>
attrVars == <<attrs, selector, applying, raPc, attrNames, nodeSelector,
              lifecycle, installedAt,
              dclListener, loadListener, watchers, raPending, nodeAttrs,
              runs, raHits, raLogged, pageChanges>>
stackVars == <<installs, stPc, stArg, stRet, stHits, stNative>>
notClickVars == <<pruneVars, rafVars, attrVars, stackVars>>
notPruneVars == <<clickVars, rafVars, attrVars, stackVars>>
notRafVars == <<clickVars, pruneVars, attrVars, stackVars>>
notAttrVars == <<clickVars, pruneVars, rafVars, stackVars>>
notStackVars == <<clickVars, pruneVars, rafVars, attrVars>>
vars == <<clickVars, pruneVars, rafVars, attrVars, stackVars>>

(***************************************************************************)
(* JavaScript string helpers                                               *)
(***************************************************************************)

\* p occurs in s at (1-based) position i
OccursAt(s, p, i) ==
    /\ i + Len(p) - 1 <= Len(s)
    /\ \A j \in 1..Len(p) : s[i + j - 1] = p[j]

\* String.prototype.indexOf: 0-based position of the first occurrence, or -1
IndexOf(s, p) ==
    LET at == {i \in 1..(Len(s) + 1) : OccursAt(s, p, i)}
    IN  IF at = {} THEN -1
        ELSE (CHOOSE i \in at : \A k \in at : i <= k) - 1

\* 1-based position of the first character of s that is in cs, 0 when none
FirstIn(s, cs) ==
    LET at == {i \in 1..Len(s) : s[i] \in cs}
    IN  IF at = {} THEN 0 ELSE CHOOSE i \in at : \A k \in at : i <= k

\* 1-based position of the first character of s that is not in cs, 0 when none
FirstNotIn(s, cs) ==
    LET at == {i \in 1..Len(s) : s[i] \notin cs}
    IN  IF at = {} THEN 0 ELSE CHOOSE i \in at : \A k \in at : i <= k

\* 1-based position of the last character of s that is not in cs, 0 when none
LastNotIn(s, cs) ==
    LET at == {i \in 1..Len(s) : s[i] \notin cs}
    IN  IF at = {} THEN 0 ELSE CHOOSE i \in at : \A k \in at : i >= k

\* String.prototype.split with a one-character separator
RECURSIVE Split(_, _)
Split(s, d) ==
    LET i == FirstIn(s, {d})
    IN  IF i = 0 THEN <<s>>
        ELSE <<SubSeq(s, 1, i - 1)>> \o Split(SubSeq(s, i + 1, Len(s)), d)

\* String.prototype.split(/ +/): a separator is a maximal run of spaces
RECURSIVE SplitSpaces(_)
SplitSpaces(s) ==
    LET i == FirstIn(s, {" "})
    IN  IF i = 0 THEN <<s>>
        ELSE LET rest == SubSeq(s, i + 1, Len(s))
                 j    == FirstNotIn(rest, {" "})
             IN  <<SubSeq(s, 1, i - 1)>>
                 \o SplitSpaces(IF j = 0 THEN <<>> ELSE SubSeq(rest, j, Len(rest)))

\* String.prototype.trim
Trim(s) ==
    LET i == FirstNotIn(s, {" "})
    IN  IF i = 0 THEN <<>> ELSE SubSeq(s, i, LastNotIn(s, {" "}))

\* the value `undefined`, which the DOM stringifies to "undefined"
Undefined == <<"undefined">>

\* JavaScript truthiness of a string-or-undefined value
Truthy(x) == x # <<>> /\ x # Undefined

\* no JSON value (nothing parsed or returned yet)
NoValue == [t |-> "undefined", f |-> <<>>]

(***************************************************************************)
(* trusted-click-elem                                                      *)
(***************************************************************************)

Elements == {"a", "b"}

\* a selector the DOM cannot parse: querySelector throws a SyntaxError
InvalidSelector(sel) == sel = <<>> \/ \E i \in 1..Len(sel) : sel[i] = "["

\* the elements of the document a (valid) selector matches: every element of
\* the modelled document is a child of the root named by one character, and
\* a one-character selector is a type selector
Matching(d, sel) == {e \in d : sel = <<e>>}

\* toRegExp(s).test(text) for a plain (not /.../) string s: the string is
\* escaped and searched for
RegExpTest(s, text) == IndexOf(text, s) # -1

\* lines 42-46
hrefMatched == IF Truthy(hrefMatch) THEN IndexOf(href, hrefMatch) # -1 ELSE TRUE

\* lines 43, 47-50: the regex is tested against window.location.href
cookieMatched == IF Truthy(cookieMatch) THEN RegExpTest(cookieMatch, href) ELSE TRUE

\* lines 56-58
ParseSelectorsReversed(s) ==
    LET parts == Split(s, ",")
    IN  [i \in 1..Len(parts) |-> Trim(parts[Len(parts) + 1 - i])]

ParseSelectors(s) ==
    LET parts == Split(s, ",")
    IN  [i \in 1..Len(parts) |-> Trim(parts[i])]

\* Array.prototype.shift: the value returned and the array left
ShiftValue(q) == IF q = <<>> THEN Undefined ELSE Head(q)
ShiftRest(q) == IF q = <<>> THEN <<>> ELSE Tail(q)

ClickEntry(sel, e) == [op |-> "click", sel |-> sel, el |-> e]
HitEntry == [op |-> "hit", sel |-> <<>>, el |-> "-"]
TimeoutEntry == [op |-> "timeout", sel |-> <<>>, el |-> "-"]

\* the scriptlet body, lines 38-84
TrustedClickElem ==
    /\ tcPc = "ready"
    /\ tcPc' = "returned"
    /\ IF ~hrefMatched \/ ~cookieMatched
       THEN UNCHANGED <<selectorsQueue, currentSelector, observerInstalled,
                        observing, timerSet>>
       ELSE LET queue == ParseSelectors(selectors)
            IN  /\ currentSelector' = ShiftValue(queue)
                /\ selectorsQueue' = ShiftRest(queue)
                /\ observerInstalled' = TRUE
                /\ observing' = TRUE
                /\ timerSet' = TRUE
    /\ UNCHANGED <<selectors, hrefMatch, cookieMatch, href, cookie, timedOut,
                   doc, pending, delivered, log, errors>>

\* the page adds element e: a childList record is queued if the observer is connected
Inject(e) ==
    /\ e \notin doc
    /\ doc' = doc \cup {e}
    /\ pending' = (pending \/ observing)
    /\ UNCHANGED <<selectors, hrefMatch, cookieMatch, href, cookie, tcPc,
                   selectorsQueue, currentSelector, observerInstalled, observing,
                   timerSet, timedOut, delivered, log, errors>>

\* the page removes element e
Remove(e) ==
    /\ e \in doc
    /\ doc' = doc \ {e}
    /\ pending' = (pending \/ observing)
    /\ UNCHANGED <<selectors, hrefMatch, cookieMatch, href, cookie, tcPc,
                   selectorsQueue, currentSelector, observerInstalled, observing,
                   timerSet, timedOut, delivered, log, errors>>

MaxBatches == 3

\* the host delivers the queued records: clickHandler, lines 61-74
ClickHandler ==
    /\ observing
    /\ pending
    /\ Len(delivered) < MaxBatches
    /\ pending' = FALSE
    /\ delivered' = Append(delivered, doc)
    /\ IF InvalidSelector(currentSelector)
       THEN \* document.querySelector throws, nothing catches it
            /\ errors' = errors + 1
            /\ UNCHANGED <<selectorsQueue, currentSelector, observing, log>>
       ELSE IF Matching(doc, currentSelector) = {}
       THEN UNCHANGED <<selectorsQueue, currentSelector, observing, log, errors>>
       ELSE LET target == CHOOSE e \in Matching(doc, currentSelector) : TRUE
                next   == ShiftValue(selectorsQueue)
            IN  /\ currentSelector' = next
                /\ selectorsQueue' = ShiftRest(selectorsQueue)
                /\ IF ~Truthy(next)
                   THEN /\ observing' = FALSE
                        /\ log' = log \o <<ClickEntry(currentSelector, target), HitEntry>>
                   ELSE /\ observing' = observing
                        /\ log' = Append(log, ClickEntry(currentSelector, target))
                /\ UNCHANGED errors
    /\ UNCHANGED <<selectors, hrefMatch, cookieMatch, href, cookie, tcPc,
                   observerInstalled, timerSet, timedOut, doc>>

\* the timer callback, line 83: observer.disconnect is passed unbound, so the
\* host calls it with the window as `this`; the DOM's receiver check throws a
\* TypeError and the observer stays connected
Timeout ==
    /\ timerSet
    /\ ~timedOut
    /\ timedOut' = TRUE
    /\ log' = Append(log, TimeoutEntry)
    /\ errors' = errors + 1
    /\ UNCHANGED <<selectors, hrefMatch, cookieMatch, href, cookie, tcPc,
                   selectorsQueue, currentSelector, observerInstalled, observing,
                   timerSet, doc, pending, delivered>>

\* the `selectors` arguments the model explores
SelectorArgs ==
    { <<"a">>,
      <<"a", ",", "b">>,
      <<"b", ",", "a">>,
      <<" ", "a", ",", " ", "b", " ">>,
      <<"a", ",", ",", "b">>,
      <<"a", ",">>,
      <<",", "a">>,
      <<>>,
      <<"a", ",", "a">>,
      <<"a", ",", "[">>,
      <<"a", "b">> }

Hrefs == { <<"u", "v">>, <<"u">> }
HrefMatches == { <<>>, <<"u">>, <<"v">>, <<"k">> }
Cookies == { <<>>, <<"k">>, <<"v">> }
CookieMatches == { <<>>, <<"k">>, <<"v">> }

\* nothing handed to the native scheduler, nothing run
NoRequest == [fn |-> <<>>, args |-> <<>>]

StackIdle ==
    /\ installs = <<>>
    /\ stPc = "idle"
    /\ stArg = NoValue
    /\ stRet = NoValue
    /\ stHits = <<>>
    /\ stNative = 0

NodeNames == {"d", "e"}

NoRuns == [install |-> 0, dcl |-> 0, load |-> 0, batch |-> 0]

AttrIdle ==
    /\ attrs = Undefined
    /\ selector = Undefined
    /\ applying = Undefined
    /\ raPc = "idle"
    /\ attrNames = <<>>
    /\ nodeSelector = Undefined
    /\ lifecycle = "loading"
    /\ installedAt = "never"
    /\ dclListener = FALSE
    /\ loadListener = FALSE
    /\ watchers = 0
    /\ raPending = FALSE
    /\ nodeAttrs = [n \in NodeNames |-> {}]
    /\ runs = NoRuns
    /\ raHits = 0
    /\ raLogged = 0
    /\ pageChanges = 0

RafIdle ==
    /\ match = Undefined
    /\ rafPc = "idle"
    /\ rafCallback = <<>>
    /\ rafArgs = <<>>
    /\ rafNative = NoRequest
    /\ rafHit = "none"
    /\ rafRan = <<>>

PruneIdle ==
    /\ propsToRemove = Undefined
    /\ requiredInitialProps = Undefined
    /\ jpPc = "idle"
    /\ jpArg = NoValue
    /\ jpRet = NoValue
    /\ jpNeeded = "not called"
    /\ jpHit = 0
    /\ jpLogged = 0

InitClick ==
    /\ \/ /\ selectors \in SelectorArgs
          /\ href = <<"u", "v">>
          /\ hrefMatch = <<>>
          /\ cookie = <<>>
          /\ cookieMatch = <<>>
       \/ /\ selectors = <<"a", ",", "b">>
          /\ href \in Hrefs
          /\ hrefMatch \in HrefMatches
          /\ cookie \in Cookies
          /\ cookieMatch \in CookieMatches
    /\ tcPc = "ready"
    /\ selectorsQueue = <<>>
    /\ currentSelector = Undefined
    /\ observerInstalled = FALSE
    /\ observing = FALSE
    /\ timerSet = FALSE
    /\ timedOut = FALSE
    /\ doc = {}
    /\ pending = FALSE
    /\ delivered = <<>>
    /\ log = <<>>
    /\ errors = 0
    /\ PruneIdle
    /\ RafIdle
    /\ AttrIdle
    /\ StackIdle

NextClick ==
    \/ TrustedClickElem /\ UNCHANGED notClickVars
    \/ (\E e \in Elements : Inject(e)) /\ UNCHANGED notClickVars
    \/ (\E e \in Elements : Remove(e)) /\ UNCHANGED notClickVars
    \/ ClickHandler /\ UNCHANGED notClickVars
    \/ Timeout /\ UNCHANGED notClickVars

SpecClick == InitClick /\ [][NextClick]_vars

(***************************************************************************)
(* Claims about trusted-click-elem                                         *)
(***************************************************************************)

\* the target list as the caller wrote it: the comma-separated entries of
\* the argument, surrounding blanks dropped
Targets ==
    LET parts == Split(selectors, ",")
    IN  [i \in 1..Len(parts) |-> Trim(parts[i])]

IsElementSelector(sel) == \E e \in Elements : sel = <<e>>

DistinctTargets ==
    /\ \A i \in 1..Len(Targets) : IsElementSelector(Targets[i])
    /\ \A i, j \in 1..Len(Targets) : i # j => Targets[i] # Targets[j]

\* the k-th delivered batch saw exactly the first k targets in the document
InjectedInOrder ==
    \A k \in 1..Len(delivered) :
        /\ k <= Len(Targets)
        /\ delivered[k] = {Targets[j][1] : j \in 1..k}

ExpectedLog(k) ==
    [i \in 1..k |-> ClickEntry(Targets[i], Targets[i][1])]
    \o (IF k = Len(Targets) THEN <<HitEntry>> ELSE <<>>)

HitCount == Cardinality({i \in 1..Len(log) : log[i].op = "hit"})

\* C1: with distinct element selectors s1..sn injected one per change batch in
\* list order before the timeout, the machine has clicked exactly s1..sk after
\* the k-th batch, in that order and once each, and has called hit exactly
\* once, right after the click on sn (and then the observer is disconnected).
C1_SequenceOrder ==
    (observerInstalled /\ DistinctTargets /\ InjectedInOrder /\ ~timedOut)
        => /\ log = ExpectedLog(Len(delivered))
           /\ (Len(delivered) = Len(Targets) => ~observing /\ HitCount = 1)

C1_Witness ==
    /\ selectors = <<"a", ",", "b">>
    /\ ~timedOut
    /\ delivered = << {"a"}, {"a", "b"} >>
    /\ log = << ClickEntry(<<"a">>, "a"), ClickEntry(<<"b">>, "b"), HitEntry >>

\* C2: once the timeout has fired, no later change batch causes a click or a
\* hit (every click and hit of the log precedes the timeout).
C2_TimeoutAbandonment ==
    \A i, j \in 1..Len(log) :
        (i < j /\ log[i].op = "timeout") => log[j].op \notin {"click", "hit"}

\* C3: hit is called at most once, and when it has been called the queue is
\* exhausted, every selector of the list has been clicked and the observer
\* is disconnected.
C3_SingleCompletion ==
    /\ HitCount <= 1
    /\ HitCount = 1 =>
        /\ selectorsQueue = <<>>
        /\ ~observing
        /\ \A i \in 1..Len(Targets) :
              Targets[i] # <<>> =>
                  \E k \in 1..Len(log) :
                      log[k].op = "click" /\ log[k].sel = Targets[i]

\* the cookie precondition as documented: cookieMatch is matched against
\* the document's cookies
CookiePreconditionHolds ==
    IF Truthy(cookieMatch) THEN RegExpTest(cookieMatch, cookie) ELSE TRUE

HrefPreconditionHolds ==
    IF Truthy(hrefMatch) THEN IndexOf(href, hrefMatch) # -1 ELSE TRUE

\* C4: if hrefMatch is given and is not a substring of the URL, or the cookie
\* precondition is not satisfied, the machine never starts: no observer, no
\* timer, no click and no hit.
C4_PreconditionFailure ==
    (~HrefPreconditionHolds \/ ~CookiePreconditionHolds)
        => (~observerInstalled /\ ~timerSet /\ log = <<>>)

\* C5: the machine starts iff the URL contains hrefMatch and the document's
\* cookies match cookieMatch; without cookieMatch the cookies are ignored.
C5_CookiePrecondition ==
    tcPc = "returned"
        => (observerInstalled <=> (HrefPreconditionHolds /\ CookiePreconditionHolds))

\* C19: no callback of trusted-click-elem (the change-batch handler or the
\* timeout handler) lets an exception escape into the page; a batch processed
\* while the current selector is malformed is a silent no-op.
C19_NothingFatal == errors = 0

\* C20: when the queue was exhausted first (observer disconnected, hit
\* emitted) and the timeout then issues its own cancel, that second cancel
\* raises no error and nothing is clicked or hit after it.
C20_IdempotentCancellation ==
    \A i, j \in 1..Len(log) :
        (i < j /\ log[i].op = "hit" /\ log[j].op = "timeout")
            => (errors = 0 /\ j = Len(log) /\ ~observing)

\* C23: once a delivered change batch has seen every target in the document
\* (before the timeout), the machine has clicked all of them in list order and
\* emitted the completion signal, without a further document change per
\* target.
C23_ConvergenceUnderCoalescing ==
    (/\ observerInstalled
     /\ DistinctTargets
     /\ ~timedOut
     /\ Len(delivered) > 0
     /\ {Targets[j][1] : j \in 1..Len(Targets)} \subseteq delivered[Len(delivered)])
        => /\ log = ExpectedLog(Len(Targets))
           /\ HitCount = 1

(***************************************************************************)
(* json-prune: JSON values                                                 *)
(***************************************************************************)

\* A JSON value is [t, f]: t its type, f its entries (keys are strings) when
\* it is an object or an array, <<>> otherwise.
Null == [t |-> "null", f |-> <<>>]
Zero == [t |-> "zero", f |-> <<>>]      \* a falsy scalar: 0, false, ""
Num1 == [t |-> "one", f |-> <<>>]       \* a truthy scalar: 1, true, "x"
Throws == [t |-> "throws", f |-> <<>>]  \* nativeParse raised a SyntaxError
Obj(f) == [t |-> "obj", f |-> f]

\* Object.keys order of the modelled keys
KeyOrder == << <<"a">>, <<"b">> >>
Keys == {KeyOrder[i] : i \in DOMAIN KeyOrder}

ObjsOver(S) == {Obj(f) : f \in UNION {[K -> S] : K \in SUBSET Keys}}

Level1 == {Num1, Obj(<<>>), Obj([k \in {<<"b">>} |-> Num1])}
Level2 == {Num1, Null} \cup ObjsOver(Level1)
Roots == {Null, Zero, Num1} \cup ObjsOver(Level2)

IsContainer(v) == v.t = "obj"

\* `!root`
RootTruthy(v) == v.t \notin {"null", "zero", "undefined"}

RECURSIVE SelectSeq2(_, _, _)
\* the entries of seq q (from position i on) that are in set S
SelectSeq2(q, i, S) ==
    IF i > Len(q) THEN <<>>
    ELSE (IF q[i] \in S THEN <<q[i]>> ELSE <<>>) \o SelectSeq2(q, i + 1, S)

\* Object.keys(v)
KeysOf(v) == SelectSeq2(KeyOrder, 1, DOMAIN v.f)

\* the value reached from v along a sequence of keys
RECURSIVE GetAt(_, _)
GetAt(v, path) ==
    IF path = <<>> THEN v ELSE GetAt(v.f[Head(path)], Tail(path))

\* v with `delete container[key]` done on the container reached along path
RECURSIVE DeleteAt(_, _, _)
DeleteAt(v, path, key) ==
    IF ~IsContainer(v) THEN v
    ELSE IF path = <<>>
    THEN Obj([k \in (DOMAIN v.f) \ {key} |-> v.f[k]])
    ELSE IF Head(path) \in DOMAIN v.f
    THEN Obj([v.f EXCEPT ![Head(path)] = DeleteAt(@, Tail(path), key)])
    ELSE v

(***************************************************************************)
(* json-prune: the path resolver getPropertyInChain (helpers, not in src/) *)
(***************************************************************************)

\* a location { base, prop }: base is given by the keys leading to it
Location(here, prop) == [base |-> here, prop |-> prop]

RECURSIVE ConcatAll(_, _)
ConcatAll(qs, i) == IF i > Len(qs) THEN <<>> ELSE qs[i] \o ConcatAll(qs, i + 1)

\* Descends one segment at a time. A value that is not a container is
\* dropped; a concrete segment that is not the last follows the key when
\* the container has it and drops the branch otherwise; the last segment
\* yields the location (container, key) whether or not the key is there
\* (callers test base[key] for undefined); with look-through a wildcard
\* segment expands the container into all its entries.
RECURSIVE ResolveFrom(_, _, _, _)
ResolveFrom(v, here, segs, lookThrough) ==
    IF ~IsContainer(v) THEN <<>>
    ELSE IF Len(segs) = 1
    THEN IF Head(segs) = <<"*">> /\ lookThrough
         THEN [i \in 1..Len(KeysOf(v)) |-> Location(here, KeysOf(v)[i])]
         ELSE <<Location(here, Head(segs))>>
    ELSE IF Head(segs) = <<"*">> /\ lookThrough
    THEN ConcatAll([i \in 1..Len(KeysOf(v)) |->
                       ResolveFrom(v.f[KeysOf(v)[i]], Append(here, KeysOf(v)[i]),
                                   Tail(segs), lookThrough)], 1)
    ELSE IF Head(segs) \in DOMAIN v.f
    THEN ResolveFrom(v.f[Head(segs)], Append(here, Head(segs)), Tail(segs), lookThrough)
    ELSE <<>>

\* getPropertyInChain(base, chain, false, lookThrough)
getPropertyInChain(base, chain, lookThrough) ==
    ResolveFrom(base, <<>>, Split(chain, "."), lookThrough)

(***************************************************************************)
(* json-prune: the scriptlet                                               *)
(***************************************************************************)

\* lines 71-73 and 74-76
SplitPaths(arg) ==
    IF arg # Undefined /\ arg # <<>> THEN SplitSpaces(arg) ELSE <<>>

prunePaths == SplitPaths(propsToRemove)
requiredPaths == SplitPaths(requiredInitialProps)

\* line 86
nestedPropName(requiredPath) ==
    LET parts == Split(requiredPath, ".") IN parts[Len(parts)]

\* lines 88-90
hasWildcard(requiredPath) ==
    \/ IndexOf(requiredPath, <<".", "*", ".">>) > -1
    \/ IndexOf(requiredPath, <<"*", ".">>) > -1
    \/ IndexOf(requiredPath, <<".", "*">>) > -1

\* details[i].base[nestedPropName] === undefined, negated
BaseHas(root, detail, name) == name \in DOMAIN GetAt(root, detail.base).f

StartValueFalse(wildcard) == FALSE

\* line 96
StartValue(wildcard) == ~wildcard

StepAlwaysAnd(wildcard, present, shouldProcess) == present /\ shouldProcess

\* lines 99-108
Step(wildcard, present, shouldProcess) ==
    IF wildcard THEN present \/ shouldProcess ELSE present /\ shouldProcess

\* the inner loop, lines 98-109
RECURSIVE InnerLoop(_, _, _, _, _, _)
InnerLoop(root, details, i, wildcard, name, shouldProcess) ==
    IF i > Len(details) THEN shouldProcess
    ELSE InnerLoop(root, details, i + 1, wildcard, name,
                   Step(wildcard, BaseHas(root, details[i], name), shouldProcess))

JsBool(b) == IF b THEN "true" ELSE "false"

\* the outer loop, lines 84-110: line 96 overwrites shouldProcess for each path
RECURSIVE OuterLoop(_, _, _, _)
OuterLoop(root, paths, i, shouldProcess) ==
    IF i > Len(paths) THEN shouldProcess
    ELSE LET requiredPath == paths[i]
             wildcard == hasWildcard(requiredPath)
             details == getPropertyInChain(root, requiredPath, wildcard)
         IN  OuterLoop(root, paths, i + 1,
                       JsBool(InnerLoop(root, details, 1, wildcard,
                                        nestedPropName(requiredPath),
                                        StartValue(wildcard))))

DeclaredFalse == "false"

\* line 83: `let shouldProcess;`
Declared == "undefined"

\* lines 78-113: returns "true", "false" or "undefined"
isPruningNeeded(root) ==
    IF ~RootTruthy(root) THEN "false"
    ELSE OuterLoop(root, requiredPaths, 1, Declared)

IsNotTrue(needed) == needed # "true"

\* line 123: isPruningNeeded(r) === false
IsFalse(needed) == needed = "false"

\* only the first owner object is processed
DeleteFirstOnly(r, ownerObjArr, i) ==
    IF Len(ownerObjArr) = 0 THEN r
    ELSE DeleteAt(r, ownerObjArr[1].base, ownerObjArr[1].prop)

\* lines 128-132
RECURSIVE DeleteAll(_, _, _)
DeleteAll(r, ownerObjArr, i) ==
    IF i > Len(ownerObjArr) THEN r
    ELSE DeleteAll(DeleteAt(r, ownerObjArr[i].base, ownerObjArr[i].prop),
                   ownerObjArr, i + 1)

\* lines 126-133
RECURSIVE Prune(_, _, _)
Prune(r, paths, i) ==
    IF i > Len(paths) THEN r
    ELSE Prune(DeleteAll(r, getPropertyInChain(r, paths[i], TRUE), 1), paths, i + 1)

\* line 138: JSON.parse = parseWrapper
JsonPrune ==
    /\ jpPc = "ready"
    /\ jpPc' = "installed"
    /\ UNCHANGED <<propsToRemove, requiredInitialProps, jpArg, jpRet, jpNeeded,
                   jpHit, jpLogged>>

\* a JSON.parse call whose native parse yields r: parseWrapper, lines 117-136
ParseWrapper(r) ==
    /\ jpPc = "installed"
    /\ jpPc' = "called"
    /\ jpArg' = r
    /\ IF r = Throws
       THEN /\ jpRet' = Throws
            /\ jpNeeded' = "not called"
            /\ jpHit' = 0
            /\ jpLogged' = 0
       ELSE IF Len(prunePaths) = 0
       THEN /\ jpRet' = r
            /\ jpNeeded' = "not called"
            /\ jpHit' = 0
            /\ jpLogged' = 1
       ELSE LET needed == isPruningNeeded(r)
            IN  /\ jpNeeded' = needed
                /\ jpLogged' = 0
                /\ IF IsFalse(needed)
                   THEN jpRet' = r /\ jpHit' = 0
                   ELSE jpRet' = Prune(r, prunePaths, 1) /\ jpHit' = 1
    /\ UNCHANGED <<propsToRemove, requiredInitialProps>>

\* the caller takes the result; the wrapper is ready for the next call
Return ==
    /\ jpPc = "called"
    /\ jpPc' = "installed"
    /\ jpArg' = NoValue
    /\ jpRet' = NoValue
    /\ jpNeeded' = "not called"
    /\ jpHit' = 0
    /\ jpLogged' = 0
    /\ UNCHANGED <<propsToRemove, requiredInitialProps>>

\* the propsToRemove arguments the model explores
PropsArgs ==
    { Undefined,
      <<>>,
      <<"a">>,
      <<"a", ".", "b">>,
      <<"*", ".", "b">>,
      <<"a", ".", "*", ".", "b">>,
      <<"a", ".", "*", " ", "b">>,
      <<"a", ".", "b", " ", "a">> }

\* the requiredInitialProps arguments the model explores
RequiredArgs ==
    { Undefined,
      <<>>,
      <<"a">>,
      <<"a", " ", "b">>,
      <<"b", " ", "a">>,
      <<"a", " ", " ", "b">>,
      <<"a", ".", "b">>,
      <<"a", ".", "a", ".", "b">>,
      <<"*">>,
      <<"*", ".", "b">>,
      <<"a", ".", "*">>,
      <<"a", ".", "*", ".", "b">>,
      <<"a", ".", "*", ".", "b", " ", "a">>,
      <<"a", " ", "*", ".", "b">> }

ClickIdle ==
    /\ selectors = <<>>
    /\ hrefMatch = <<>>
    /\ cookieMatch = <<>>
    /\ href = <<>>
    /\ cookie = <<>>
    /\ tcPc = "idle"
    /\ selectorsQueue = <<>>
    /\ currentSelector = Undefined
    /\ observerInstalled = FALSE
    /\ observing = FALSE
    /\ timerSet = FALSE
    /\ timedOut = FALSE
    /\ doc = {}
    /\ pending = FALSE
    /\ delivered = <<>>
    /\ log = <<>>
    /\ errors = 0

InitPrune ==
    /\ propsToRemove \in PropsArgs
    /\ requiredInitialProps \in RequiredArgs
    /\ jpPc = "ready"
    /\ jpArg = NoValue
    /\ jpRet = NoValue
    /\ jpNeeded = "not called"
    /\ jpHit = 0
    /\ jpLogged = 0
    /\ ClickIdle
    /\ RafIdle
    /\ AttrIdle
    /\ StackIdle

NextPrune ==
    \/ JsonPrune /\ UNCHANGED notPruneVars
    \/ (\E r \in Roots \cup {Throws} : ParseWrapper(r)) /\ UNCHANGED notPruneVars
    \/ Return /\ UNCHANGED notPruneVars

SpecPrune == InitPrune /\ [][NextPrune]_vars

(***************************************************************************)
(* prevent-requestAnimationFrame                                           *)
(***************************************************************************)

\* helper startsWith(str, prefix): false for a missing or empty str
startsWith(str, prefix) == Truthy(str) /\ IndexOf(str, prefix) = 0

\* the empty function handed over in place of a prevented callback
noopFunc == <<"noopFunc">>

\* line 79
shouldLog == match = Undefined

\* line 82
doNotMatch == startsWith(match, <<"!">>)

\* line 84: match.slice(1) when negated
rawMatch == IF doNotMatch THEN SubSeq(match, 2, Len(match)) ELSE match

\* the negation prefix is ignored
ShouldPreventPlain(callback) ==
    IF shouldLog THEN FALSE ELSE RegExpTest(rawMatch, callback)

\* lines 88-94: let shouldPrevent = false; set only when a match was given
ShouldPrevent(callback) ==
    IF shouldLog THEN FALSE
    ELSE RegExpTest(rawMatch, callback) # doNotMatch

\* lines 75-105 without the wrapper: captures the native function, installs
PreventRequestAnimationFrame ==
    /\ rafPc = "ready"
    /\ rafPc' = "installed"
    /\ UNCHANGED <<match, rafCallback, rafArgs, rafNative, rafHit, rafRan>>

\* lines 87-102: one call of window.requestAnimationFrame(callback, ...args)
RafWrapper(callback, args) ==
    /\ rafPc = "installed"
    /\ rafPc' = "requested"
    /\ rafCallback' = callback
    /\ rafArgs' = args
    /\ rafHit' = IF shouldLog THEN "hit(source, logMessage)"
                 ELSE IF ShouldPrevent(callback) THEN "hit(source)"
                 ELSE "none"
    /\ rafNative' = IF ShouldPrevent(callback)
                    THEN [fn |-> noopFunc, args |-> <<>>]
                    ELSE [fn |-> callback, args |-> args]
    /\ rafRan' = <<>>
    /\ UNCHANGED match

\* the native scheduler runs what it was handed, before the next repaint
AnimationFrame ==
    /\ rafPc = "requested"
    /\ rafPc' = "ran"
    /\ rafRan' = rafNative.fn
    /\ UNCHANGED <<match, rafCallback, rafArgs, rafNative, rafHit>>

\* the page goes on to its next request
NextRequest ==
    /\ rafPc = "ran"
    /\ rafPc' = "installed"
    /\ rafCallback' = <<>>
    /\ rafArgs' = <<>>
    /\ rafNative' = NoRequest
    /\ rafHit' = "none"
    /\ rafRan' = <<>>
    /\ UNCHANGED match

MatchArgs ==
    { Undefined, <<>>, <<"a">>, <<"b">>, <<"a", "b">>, <<"!">>, <<"!", "a">>,
      <<"!", "b">>, <<"!", "!", "a">> }

\* callback.toString() of the callbacks the page passes
CallbackTexts ==
    { <<"a">>, <<"b">>, <<"a", "b">>, <<"!", "a">>, <<"c">> }

CallArgs == { <<>>, <<"t">> }

InitRaf ==
    /\ match \in MatchArgs
    /\ rafPc = "ready"
    /\ rafCallback = <<>>
    /\ rafArgs = <<>>
    /\ rafNative = NoRequest
    /\ rafHit = "none"
    /\ rafRan = <<>>
    /\ ClickIdle
    /\ PruneIdle
    /\ AttrIdle
    /\ StackIdle

NextRaf ==
    \/ PreventRequestAnimationFrame /\ UNCHANGED notRafVars
    \/ (\E callback \in CallbackTexts, args \in CallArgs :
            RafWrapper(callback, args)) /\ UNCHANGED notRafVars
    \/ AnimationFrame /\ UNCHANGED notRafVars
    \/ NextRequest /\ UNCHANGED notRafVars

SpecRaf == InitRaf /\ [][NextRaf]_vars

(***************************************************************************)
(* Claims about prevent-requestAnimationFrame                              *)
(***************************************************************************)

\* the rule of the documentation: search, or "!" followed by search
Negated == match # Undefined /\ Len(match) > 0 /\ match[1] = "!"

MustPrevent ==
    IF match = Undefined THEN FALSE
    ELSE IF Negated THEN ~RegExpTest(Tail(match), rafCallback)
    ELSE RegExpTest(match, rafCallback)

HasWildcardSegment(path) ==
    \E i \in 1..Len(Split(path, ".")) : Split(path, ".")[i] = <<"*">>

FinalKey(path) == Split(path, ".")[Len(Split(path, "."))]

\* the locations the path denotes in root, and those among them whose
\* container has a defined value at the path's final key
Resolved(root, path, lookThrough) ==
    LET locs == getPropertyInChain(root, path, lookThrough)
    IN  {locs[i] : i \in 1..Len(locs)}

DefinedAt(root, path, lookThrough) ==
    {l \in Resolved(root, path, lookThrough) :
        FinalKey(path) \in DOMAIN GetAt(root, l.base).f}

\* the code looks through a wildcard only when it stands next to a dot, that
\* is in a path of at least two segments
WildcardInChain(path) ==
    HasWildcardSegment(path) /\ Len(Split(path, ".")) >= 2

\* one required path taken alone: OR over the look-through locations of a
\* wildcard path, AND over the locations of any other path
EntrySatisfied(root, path) ==
    IF WildcardInChain(path)
    THEN DefinedAt(root, path, TRUE) # {}
    ELSE DefinedAt(root, path, FALSE) = Resolved(root, path, FALSE)

\* the predicate was evaluated in the call that just returned
Evaluated == jpPc = "called" /\ jpNeeded # "not called"

\* C6: for a truthy root and a non-empty requiredPaths list, isPruningNeeded
\* is true iff every entry of the list is satisfied, and when some entry is
\* not satisfied nothing is pruned.
C6_ConjunctionOverRequiredPaths ==
    (Evaluated /\ RootTruthy(jpArg) /\ requiredPaths # <<>>)
        => /\ (jpNeeded = "true") <=>
                  (\A i \in 1..Len(requiredPaths) : EntrySatisfied(jpArg, requiredPaths[i]))
           /\ (\E i \in 1..Len(requiredPaths) : ~EntrySatisfied(jpArg, requiredPaths[i]))
                  => (jpRet = jpArg /\ jpHit = 0)

SingleRequiredPath == Evaluated /\ RootTruthy(jpArg) /\ Len(requiredPaths) = 1

\* C7 as stated: a single required path that contains a wildcard is resolved
\* with look-through enabled and is satisfied iff at least one resolved
\* location has a defined value at the final key.
C7_AnyWildcardLooksThrough ==
    (SingleRequiredPath /\ HasWildcardSegment(requiredPaths[1]))
        => /\ hasWildcard(requiredPaths[1])
           /\ (jpNeeded = "true") <=> (DefinedAt(jpArg, requiredPaths[1], TRUE) # {})

\* C7 amended: a single required path with a wildcard segment and at least
\* one more segment is resolved with look-through enabled and is satisfied
\* iff at least one resolved location has a defined value at the final key;
\* the one-segment path "*" is resolved without look-through and is
\* satisfied iff every resolved location has a defined value at key "*".
C7_DisjunctiveWildcard ==
    /\ (SingleRequiredPath /\ WildcardInChain(requiredPaths[1]))
        => /\ hasWildcard(requiredPaths[1])
           /\ (jpNeeded = "true") <=> (DefinedAt(jpArg, requiredPaths[1], TRUE) # {})
    /\ (SingleRequiredPath /\ requiredPaths[1] = <<"*">>)
        => /\ ~hasWildcard(requiredPaths[1])
           /\ (jpNeeded = "true") <=>
                  (DefinedAt(jpArg, requiredPaths[1], FALSE)
                      = Resolved(jpArg, requiredPaths[1], FALSE))

\* "a.*.b" on {a: {a: {b: 1}, b: {}}} is satisfied
C7_Witness ==
    /\ Evaluated
    /\ requiredPaths = << <<"a", ".", "*", ".", "b">> >>
    /\ jpArg = Obj([k \in {<<"a">>} |->
                     Obj([j \in Keys |->
                            IF j = <<"a">> THEN Obj([m \in {<<"b">>} |-> Num1])
                            ELSE Obj(<<>>)])])
    /\ jpNeeded = "true"

C9_EmptyListReturnsFalse ==
    (Evaluated /\ requiredPaths = <<>>) => jpNeeded = "false"

\* C9 amended: with an empty requiredPaths list isPruningNeeded returns
\* false for a falsy root and undefined for a truthy root, and the wrapper
\* then prunes (undefined is not === false).
C9_EmptyListReturnsUndefined ==
    (Evaluated /\ requiredPaths = <<>>)
        => /\ jpNeeded = (IF RootTruthy(jpArg) THEN "undefined" ELSE "false")
           /\ (jpHit = 1) <=> RootTruthy(jpArg)

C9_Witness ==
    /\ Evaluated
    /\ requiredPaths = <<>>
    /\ IsContainer(jpArg)
    /\ jpNeeded = "undefined"
    /\ jpHit = 1

\* the locations of the prune paths whose key is still present in root
Remaining(root) ==
    UNION { {l \in Resolved(root, prunePaths[i], TRUE) :
                l.prop \in DOMAIN GetAt(root, l.base).f}
            : i \in 1..Len(prunePaths) }

ObjAB == Obj([k \in Keys |-> Num1])
ObjB == Obj([k \in {<<"b">>} |-> Num1])

\* C10: with propsToRemove given and no obligatoryProps, a JSON.parse call
\* whose result is a non-null object returns it with no location of the prune
\* paths left and calls hit exactly once; propsToRemove "a" turns {a:1, b:1}
\* into {b:1}.
C10_NoPreconditionAlwaysPrunes ==
    (jpPc = "called" /\ Len(prunePaths) > 0 /\ requiredPaths = <<>>
        /\ IsContainer(jpArg))
        => /\ jpHit = 1
           /\ IsContainer(jpRet)
           /\ Remaining(jpRet) = {}
           /\ (propsToRemove = <<"a">> /\ jpArg = ObjAB) => jpRet = ObjB

C10_Witness ==
    /\ jpPc = "called"
    /\ propsToRemove = <<"a">>
    /\ requiredInitialProps = Undefined
    /\ jpArg = ObjAB
    /\ jpRet = ObjB
    /\ jpHit = 1

\* the parse result came back untouched and hit was not called
NoOpCall == jpRet = jpArg /\ jpHit = 0

\* C11: the wrapper returns the native result with nothing deleted and without
\* hit, and raises no error of its own, whenever (a) propsToRemove is empty
\* or omitted, (b) the parse result is null, or (c) the required paths are
\* not all satisfied.
C11_NoOpFrame ==
    (jpPc = "called" /\ jpArg # Throws)
        => /\ jpRet # Throws
           /\ Len(prunePaths) = 0 => NoOpCall
           /\ jpArg = Null => NoOpCall
           /\ (RootTruthy(jpArg) /\ requiredPaths # <<>>
                 /\ \E i \in 1..Len(requiredPaths) :
                        ~EntrySatisfied(jpArg, requiredPaths[i]))
                  => NoOpCall

StarPath == <<"a", ".", "*", ".", "b">>

\* the concrete paths "a.k.b" for every key k of root.a
EnumeratedPaths(root) ==
    IF IsContainer(root) /\ <<"a">> \in DOMAIN root.f /\ IsContainer(root.f[<<"a">>])
    THEN [i \in 1..Len(KeysOf(root.f[<<"a">>])) |->
             <<"a", ".">> \o KeysOf(root.f[<<"a">>])[i] \o <<".", "b">>]
    ELSE <<>>

WithoutKey(v, key) ==
    IF IsContainer(v) THEN Obj([k \in (DOMAIN v.f) \ {key} |-> v.f[k]]) ELSE v

\* root with key b taken out of every entry of root.a, nothing else touched
EveryEntryLosesB(root) ==
    IF IsContainer(root) /\ <<"a">> \in DOMAIN root.f /\ IsContainer(root.f[<<"a">>])
    THEN Obj([root.f EXCEPT ![<<"a">>] =
                 Obj([k \in DOMAIN @.f |-> WithoutKey(@.f[k], <<"b">>)])])
    ELSE root

\* C12: pruning with the wildcard path "a.*.b" returns the same object as
\* pruning with the concrete paths "a.k.b" enumerated over every key k of a:
\* every entry of a exposing b loses it, the other entries and everything
\* outside a are unchanged.
C12_WildcardEqualsEnumerated ==
    (jpPc = "called" /\ propsToRemove = StarPath /\ jpHit = 1)
        => /\ jpRet = Prune(jpArg, EnumeratedPaths(jpArg), 1)
           /\ jpRet = EveryEntryLosesB(jpArg)

\* {a: {a: {b: 1}, b: {b: 1}}} loses both b and becomes {a: {a: {}, b: {}}};
\* {a: {a: {b: 1}, b: {}}} loses one and keeps the empty entry
C12_Witness ==
    /\ jpPc = "called"
    /\ propsToRemove = StarPath
    /\ jpHit = 1
    /\ jpArg = Obj([k \in {<<"a">>} |-> Obj([j \in Keys |-> ObjB])])
    /\ jpRet = Obj([k \in {<<"a">>} |-> Obj([j \in Keys |-> Obj(<<>>)])])

(***************************************************************************)
(* remove-attr                                                             *)
(***************************************************************************)

\* String.prototype.split(/\s*\|\s*/): the spaces around a bar belong to it
RECURSIVE SplitBar(_)
SplitBar(str) ==
    LET i == FirstIn(str, {"|"})
    IN  IF i = 0 THEN <<str>>
        ELSE LET left == SubSeq(str, 1, i - 1)
                 rest == SubSeq(str, i + 1, Len(str))
                 j    == FirstNotIn(rest, {" "})
             IN  <<SubSeq(left, 1, LastNotIn(left, {" "}))>>
                 \o SplitBar(IF j = 0 THEN <<>> ELSE SubSeq(rest, j, Len(rest)))

\* Array.prototype.join
RECURSIVE Join(_, _)
Join(list, glue) ==
    IF Len(list) = 0 THEN <<>>
    ELSE IF Len(list) = 1 THEN list[1]
    ELSE list[1] \o glue \o Join(Tail(list), glue)

\* line 72
attrList == SplitBar(attrs)

\* lines 73-75
Selector ==
    IF Truthy(selector) THEN selector
    ELSE <<"[">> \o Join(attrList, <<"]", ",", "[">>) \o <<"]">>

\* the names of the flags
ASAP == <<"a", "s", "a", "p">>
COMPLETE == <<"c", "o", "m", "p", "l", "e", "t", "e">>
STAY == <<"s", "t", "a", "y">>

\* the default value of the parameter is 'asap'
ApplyingDefaultAsap == IF applying = Undefined THEN ASAP ELSE applying

\* line 68: the default value of the parameter is used for an omitted argument
Applying == IF applying = Undefined THEN ASAP \o <<" ">> \o STAY ELSE applying

\* a compound selector "[name]": the nodes carrying the attribute
IsAttrSelector(part) ==
    /\ Len(part) >= 3
    /\ part[1] = "["
    /\ part[Len(part)] = "]"
    /\ \A i \in 2..(Len(part) - 1) : part[i] \notin {"[", "]", " ", ","}

\* a one-letter type selector: the nodes of that name
IsTypeSelector(part) == Len(part) = 1 /\ part[1] \notin {"[", "]", " ", ",", "|"}

\* document.querySelectorAll(sel): ok is FALSE when it throws a SyntaxError
QuerySelectorAll(sel, na) ==
    LET parts == {Trim(part) : part \in {Split(sel, ",")[i] : i \in 1..Len(Split(sel, ","))}}
    IN  IF \E part \in parts : ~IsAttrSelector(part) /\ ~IsTypeSelector(part)
        THEN [ok |-> FALSE, nodes |-> {}]
        ELSE [ok |-> TRUE,
              nodes |-> {n \in NodeNames :
                            \E part \in parts :
                                \/ IsTypeSelector(part) /\ part[1] = n
                                \/ /\ IsAttrSelector(part)
                                   /\ SubSeq(part, 2, Len(part) - 1) \in na[n]}]

\* the error is not caught: the statement is abandoned with every node
NodesUncaught(q) == IF q.ok THEN q.nodes ELSE NodeNames

\* lines 78-84: let nodes = []; assigned only when querySelectorAll returns
NodesOrEmpty(q) == IF q.ok THEN q.nodes ELSE {}

\* removeAttribute queues a record even when the attribute was absent
RemoveAttributesAlwaysRecords(st, q, names) ==
    LET nodes   == NodesOrEmpty(q)
        removed == nodes # {} /\ names # {}
    IN  [na      |-> [n \in NodeNames |->
                         IF n \in nodes THEN st.na[n] \ names ELSE st.na[n]],
         hits    |-> st.hits + (IF removed THEN 1 ELSE 0),
         logged  |-> st.logged + (IF q.ok THEN 0 ELSE 1),
         mutated |-> st.mutated \/ removed]

\* lines 85-94: the nodes found lose every attribute of the list
RemoveAttributes(st, q, names) ==
    LET nodes   == NodesOrEmpty(q)
        removed == nodes # {} /\ names # {}
        na2     == [n \in NodeNames |->
                       IF n \in nodes THEN st.na[n] \ names ELSE st.na[n]]
    IN  [na      |-> na2,
         hits    |-> st.hits + (IF removed THEN 1 ELSE 0),
         logged  |-> st.logged + (IF q.ok THEN 0 ELSE 1),
         mutated |-> st.mutated \/ na2 # st.na]

\* lines 77-95, on st = [na, hits, logged, mutated], with the selector and
\* the attrs of the closure; the query is made once
rmattr(st, sel, list) ==
    CHOOSE after \in { RemoveAttributes(st, q, names) :
                           q \in {QuerySelectorAll(sel, st.na)},
                           names \in {{list[i] : i \in 1..Len(list)}} } : TRUE

\* helper parseFlags: the recognised tokens, the default set when there is none
parseFlags(str) ==
    LET tokens == SplitSpaces(Trim(str))
        passed == {tokens[i] : i \in 1..Len(tokens)} \cap {ASAP, COMPLETE, STAY}
    IN  IF passed = {} THEN {ASAP, STAY} ELSE passed

\* line 97
flags == parseFlags(Applying)

hasFlag(flag) == flag \in flags

\* document.readyState
readyState ==
    IF lifecycle = "loading" THEN "loading"
    ELSE IF lifecycle \in {"interactive", "domready"} THEN "interactive"
    ELSE "complete"

\* line 123: !applying.indexOf(' ') is a boolean, which is never === -1
OnlyStay ==
    LET negated == (IndexOf(Applying, <<" ">>) = 0)
    IN  negated \in BOOLEAN

\* rmattr is called at once whatever document.readyState is
AsapAlways == hasFlag(ASAP)

\* lines 108-116: the else branch of the readyState test
AsapNow == hasFlag(ASAP) /\ readyState # "loading"

\* line 119
OnLoad == readyState # "complete" /\ hasFlag(COMPLETE)

\* the observer is bound for the single flag 'stay' only
StayAlone == ~OnLoad /\ flags = {STAY}

\* line 121
StayNow == ~OnLoad /\ hasFlag(STAY)

Now == [na |-> nodeAttrs, hits |-> raHits, logged |-> raLogged, mutated |-> FALSE]

\* lines 68-129
RemoveAttr ==
    /\ raPc = "ready"
    /\ raPc' = "installed"
    /\ installedAt' = lifecycle
    /\ IF ~Truthy(attrs)
       THEN UNCHANGED <<attrNames, nodeSelector, dclListener, loadListener,
                        watchers, nodeAttrs, runs, raHits, raLogged>>
       ELSE LET asapNow == AsapNow
                again   == StayNow /\ OnlyStay
                st1     == IF asapNow THEN rmattr(Now, Selector, attrList) ELSE Now
                st2     == IF again THEN rmattr(st1, Selector, attrList) ELSE st1
            IN  /\ attrNames' = attrList
                /\ nodeSelector' = Selector
                /\ dclListener' = (hasFlag(ASAP) /\ ~asapNow)
                /\ loadListener' = OnLoad
                /\ watchers' = IF StayNow THEN watchers + 1 ELSE watchers
                /\ nodeAttrs' = st2.na
                /\ raHits' = st2.hits
                /\ raLogged' = st2.logged
                /\ runs' = [runs EXCEPT !.install = (IF asapNow THEN 1 ELSE 0)
                                                    + (IF again THEN 1 ELSE 0)]
    /\ raPending' = FALSE
    /\ UNCHANGED <<attrs, selector, applying, lifecycle, pageChanges>>

\* the parser has finished: document.readyState becomes "interactive"
Interactive ==
    /\ lifecycle = "loading"
    /\ lifecycle' = "interactive"
    /\ UNCHANGED <<attrs, selector, applying, raPc, attrNames, nodeSelector,
                   installedAt, dclListener,
                   loadListener, watchers, raPending, nodeAttrs, runs, raHits,
                   raLogged, pageChanges>>

\* the DOMContentLoaded event: line 113, rmattr registered with { once: true }
DOMContentLoaded ==
    /\ lifecycle = "interactive"
    /\ lifecycle' = "domready"
    /\ dclListener' = FALSE
    /\ IF dclListener
       THEN LET st == rmattr(Now, nodeSelector, attrNames)
            IN  /\ nodeAttrs' = st.na
                /\ raHits' = st.hits
                /\ raLogged' = st.logged
                /\ runs' = [runs EXCEPT !.dcl = @ + 1]
                /\ raPending' = (raPending \/ (watchers > 0 /\ st.mutated))
       ELSE UNCHANGED <<nodeAttrs, raHits, raLogged, runs, raPending>>
    /\ UNCHANGED <<attrs, selector, applying, raPc, attrNames, nodeSelector,
                   installedAt, loadListener,
                   watchers, pageChanges>>

\* every resource is loaded: document.readyState becomes "complete"
Complete ==
    /\ lifecycle = "domready"
    /\ lifecycle' = "complete"
    /\ UNCHANGED <<attrs, selector, applying, raPc, attrNames, nodeSelector,
                   installedAt, dclListener,
                   loadListener, watchers, raPending, nodeAttrs, runs, raHits,
                   raLogged, pageChanges>>

\* the load event: lines 99-106 and 120, run registered with { once: true }
Load ==
    /\ lifecycle = "complete"
    /\ lifecycle' = "loaded"
    /\ loadListener' = FALSE
    /\ IF loadListener
       THEN LET st == rmattr(Now, nodeSelector, attrNames)
            IN  /\ nodeAttrs' = st.na
                /\ raHits' = st.hits
                /\ raLogged' = st.logged
                /\ runs' = [runs EXCEPT !.load = @ + 1]
                /\ raPending' = (raPending \/ (watchers > 0 /\ st.mutated))
                /\ watchers' = IF hasFlag(STAY) THEN watchers + 1 ELSE watchers
       ELSE UNCHANGED <<nodeAttrs, raHits, raLogged, runs, raPending, watchers>>
    /\ UNCHANGED <<attrs, selector, applying, raPc, attrNames, nodeSelector,
                   installedAt, dclListener,
                   pageChanges>>

AttrNames == { <<"x">>, <<"y">> }

MaxPageChanges == 2

\* a script of the page puts an attribute on a node
SetAttribute(n, name) ==
    /\ pageChanges < MaxPageChanges
    /\ name \notin nodeAttrs[n]
    /\ nodeAttrs' = [nodeAttrs EXCEPT ![n] = @ \cup {name}]
    /\ pageChanges' = pageChanges + 1
    /\ raPending' = (raPending \/ watchers > 0)
    /\ UNCHANGED <<attrs, selector, applying, raPc, attrNames, nodeSelector,
                   lifecycle, installedAt,
                   dclListener, loadListener, watchers, runs, raHits, raLogged>>

\* helper observeDOMChanges(rmattr, true): a batch of records is delivered
\* and the callback is invoked
ObserveDOMChanges ==
    /\ watchers > 0
    /\ raPending
    /\ \E st \in {rmattr(Now, nodeSelector, attrNames)} :
           /\ nodeAttrs' = st.na
           /\ raHits' = st.hits
           /\ raLogged' = st.logged
           /\ raPending' = st.mutated
    /\ runs' = [runs EXCEPT !.batch = @ + 1]
    /\ UNCHANGED <<attrs, selector, applying, raPc, attrNames, nodeSelector,
                   lifecycle, installedAt,
                   dclListener, loadListener, watchers, pageChanges>>

ApplyingArgs ==
    { Undefined, <<>>, <<"z", "z">>, ASAP, COMPLETE, STAY,
      ASAP \o <<" ">> \o STAY, STAY \o <<" ">> \o ASAP,
      COMPLETE \o <<" ">> \o STAY, ASAP \o <<" ">> \o COMPLETE,
      ASAP \o <<" ">> \o COMPLETE \o <<" ">> \o STAY }

AttrsArgs == { Undefined, <<>>, <<"x">>, <<"x", "|", "y">>, <<"x", " ", "|", " ", "y">> }

SelectorArgs2 == { Undefined, <<"d">>, <<"z">>, <<"[">>, <<"d", ",", "[", "y", "]">> }

InitAttr ==
    /\ \/ /\ attrs = <<"x">>
          /\ selector \in {Undefined, <<"d">>, <<"[">>}
          /\ applying \in ApplyingArgs
       \/ /\ attrs \in AttrsArgs
          /\ selector \in SelectorArgs2
          /\ applying = Undefined
    /\ raPc = "ready"
    /\ attrNames = <<>>
    /\ nodeSelector = Undefined
    /\ lifecycle = "loading"
    /\ installedAt = "never"
    /\ dclListener = FALSE
    /\ loadListener = FALSE
    /\ watchers = 0
    /\ raPending = FALSE
    /\ nodeAttrs = [n \in NodeNames |-> IF n = "d" THEN AttrNames ELSE {<<"x">>}]
    /\ runs = NoRuns
    /\ raHits = 0
    /\ raLogged = 0
    /\ pageChanges = 0
    /\ ClickIdle
    /\ PruneIdle
    /\ RafIdle
    /\ StackIdle

NextAttr ==
    \/ RemoveAttr /\ UNCHANGED notAttrVars
    \/ Interactive /\ UNCHANGED notAttrVars
    \/ DOMContentLoaded /\ UNCHANGED notAttrVars
    \/ Complete /\ UNCHANGED notAttrVars
    \/ Load /\ UNCHANGED notAttrVars
    \/ (\E n \in NodeNames, name \in AttrNames : SetAttribute(n, name))
           /\ UNCHANGED notAttrVars
    \/ ObserveDOMChanges /\ UNCHANGED notAttrVars

SpecAttr == InitAttr /\ [][NextAttr]_vars

\* the same behaviours, with every queued batch of records delivered in the end
SpecAttrFair == SpecAttr /\ WF_vars(ObserveDOMChanges /\ UNCHANGED notAttrVars)

(***************************************************************************)
(* Claims about remove-attr                                                *)
(***************************************************************************)

Installed == raPc = "installed" /\ Truthy(attrs)

TotalRuns == runs.install + runs.dcl + runs.load + runs.batch

\* the milestones the document has passed
PastDOMContentLoaded == lifecycle \in {"domready", "complete", "loaded"}
PastLoad == lifecycle = "loaded"

\* C14: with applying 'asap', rmattr runs exactly once: at install when the
\* document was not loading then, otherwise at DOMContentLoaded; it never
\* runs again and no observer is bound.
C14_AsapRunsOnce ==
    (Installed /\ applying = ASAP)
        => /\ runs.install = (IF installedAt # "loading" THEN 1 ELSE 0)
           /\ runs.dcl = (IF installedAt = "loading" /\ PastDOMContentLoaded
                          THEN 1 ELSE 0)
           /\ runs.load = 0
           /\ runs.batch = 0
           /\ watchers = 0

\* installed while loading, run at DOMContentLoaded, and not again although
\* the page went on changing attributes until after load
C14_Witness ==
    /\ Installed
    /\ applying = ASAP
    /\ installedAt = "loading"
    /\ lifecycle = "loaded"
    /\ pageChanges = MaxPageChanges
    /\ TotalRuns = 1

\* C15: with applying 'complete', rmattr runs exactly once: at the load event
\* when the document was not complete at install, and at install when
\* document.readyState was already 'complete'.
C15_CompleteRunsOnce ==
    (Installed /\ applying = COMPLETE)
        => /\ runs.install = (IF installedAt \in {"complete", "loaded"} THEN 1 ELSE 0)
           /\ runs.load = (IF installedAt \notin {"complete", "loaded"} /\ PastLoad
                           THEN 1 ELSE 0)
           /\ runs.dcl = 0
           /\ runs.batch = 0

\* the tokens written in the applying argument
Written(flag) ==
    /\ applying # Undefined
    /\ \E i \in 1..Len(SplitSpaces(applying)) : SplitSpaces(applying)[i] = flag

\* the load event is still awaited by an installation made with 'complete'
AwaitingLoad ==
    Written(COMPLETE) /\ installedAt \notin {"complete", "loaded"} /\ ~PastLoad

\* a node the selector matches carries an attribute of attrs
Dirty ==
    \E n \in QuerySelectorAll(nodeSelector, nodeAttrs).nodes :
        \E i \in 1..Len(attrNames) : attrNames[i] \in nodeAttrs[n]

\* C16: whenever applying includes 'stay', an observer of subtree and
\* attribute changes is bound (at install, or at the load event when
\* 'complete' is also given and the document was not complete), it is never
\* cancelled, and queued records are consumed only by a run of rmattr; with
\* every queued batch delivered in the end, an attribute of attrs that the
\* page puts back on a matching node is removed again.
C16_StayKeepsObserving ==
    /\ []((Installed /\ Written(STAY))
             => watchers = (IF AwaitingLoad THEN 0 ELSE 1))
    /\ [][/\ watchers' >= watchers
          /\ (raPending /\ ~raPending') => runs'.batch = runs.batch + 1]_vars
    /\ (Installed /\ Written(STAY) /\ watchers > 0 /\ Dirty) ~> ~Dirty

\* 'complete stay' installed while loading: the observer was bound at load,
\* the page put an attribute back and a delivered batch removed it again
C16_Witness ==
    /\ Installed
    /\ applying = COMPLETE \o <<" ">> \o STAY
    /\ installedAt = "loading"
    /\ lifecycle = "loaded"
    /\ watchers = 1
    /\ pageChanges > 0
    /\ runs.batch > 0
    /\ ~Dirty

\* what 'asap stay' does: one run at install or at DOMContentLoaded, a second
\* run and the observer from the stay branch, nothing at load
AsapStaySchedule ==
    /\ watchers = 1
    /\ loadListener = FALSE
    /\ dclListener = (installedAt = "loading" /\ ~PastDOMContentLoaded)
    /\ runs.install = (IF installedAt = "loading" THEN 1 ELSE 2)
    /\ runs.dcl = (IF installedAt = "loading" /\ PastDOMContentLoaded THEN 1 ELSE 0)
    /\ runs.load = 0
    /\ flags = {ASAP, STAY}

\* C17: an omitted, an empty and a garbled applying argument make remove-attr
\* behave as with 'asap stay': the same runs at the same milestones and an
\* observer bound.
C17_FlagDefault ==
    (Installed /\ applying \in {Undefined, <<>>, <<"z", "z">>, ASAP \o <<" ">> \o STAY})
        => AsapStaySchedule

\* applying omitted, installed while loading, rmattr run at DOMContentLoaded
C17_Witness ==
    /\ Installed
    /\ applying = Undefined
    /\ installedAt = "loading"
    /\ runs.dcl = 1
    /\ watchers = 1

AttributeCount ==
    Cardinality(nodeAttrs["d"]) + Cardinality(nodeAttrs["e"])

InvalidSelectorArg == ~QuerySelectorAll(nodeSelector, nodeAttrs).ok

\* the listeners and the observer that the flags call for
ScheduledByFlags ==
    /\ dclListener = (hasFlag(ASAP) /\ installedAt = "loading"
                        /\ ~PastDOMContentLoaded)
    /\ loadListener = (hasFlag(COMPLETE)
                         /\ installedAt \notin {"complete", "loaded"} /\ ~PastLoad)
    /\ watchers = (IF hasFlag(STAY)
                      /\ ~(hasFlag(COMPLETE)
                             /\ installedAt \notin {"complete", "loaded"} /\ ~PastLoad)
                   THEN 1 ELSE 0)

\* C18: with a selector that is not valid CSS every rmattr run logs the error
\* and removes nothing, hit is not called, and the listeners and the observer
\* are those installed for a valid selector.
C18_InvalidSelector ==
    /\ Installed => ScheduledByFlags
    /\ (Installed /\ InvalidSelectorArg)
          => /\ raHits = 0
             /\ raLogged = TotalRuns
             /\ AttributeCount = 3 + pageChanges

\* selector '[' with 'asap stay': runs at install and on a delivered batch,
\* each logged, the observer bound
C18_Witness ==
    /\ Installed
    /\ selector = <<"[">>
    /\ watchers = 1
    /\ runs.batch > 0
    /\ raLogged = TotalRuns
    /\ raHits = 0

\* C21: each rmattr invocation calls hit at most once, and only when it removed
\* at least one attribute of attrs from at least one matched node; a run that
\* strips nothing does not call hit.
C21_HitPerApplication ==
    [][/\ raHits' - raHits <= TotalRuns' - TotalRuns
       /\ raHits' > raHits => \E n \in NodeNames : nodeAttrs'[n] # nodeAttrs[n]]_vars

\* C22: in the stay branch rmattr is called synchronously only when applying
\* is the single flag 'stay'; with several flags the branch only binds the
\* observer, so that with 'asap stay' on a document that is not loading rmattr
\* runs exactly once at install.
C22_SingleSynchronousRun ==
    (Installed /\ Written(STAY) /\ ~AwaitingLoad /\ watchers = 1)
        => runs.install =
              (IF applying = STAY THEN 1
               ELSE IF Written(ASAP) /\ installedAt # "loading" THEN 1
               ELSE 0)

\* C24: with the observer bound, rmattr's own removals cause finitely many
\* further rmattr runs: a run that strips nothing queues nothing, an idle
\* observer means no matched node carries an attribute of attrs, and once the
\* page has stopped changing the document no batch stays pending.
C24_Quiescence ==
    /\ []((Installed /\ watchers > 0 /\ ~raPending) => ~Dirty)
    /\ [][(runs'.batch > runs.batch /\ nodeAttrs' = nodeAttrs) => ~raPending']_vars
    /\ <>[](~raPending)

\* the page put one attribute back: the first batch run removed it, which
\* queued a batch of its own, and the second run found nothing and ended the loop
C24_Witness ==
    /\ Installed
    /\ watchers = 1
    /\ pageChanges = 1
    /\ runs.batch = 2
    /\ ~raPending
    /\ ~Dirty

(***************************************************************************)
(* json-prune injected several times: each install wraps the JSON.parse    *)
(* that is current when it runs                                            *)
(***************************************************************************)

MaxInstalls == 2

\* the install captures the function the latest wrapper had captured, and so
\* bypasses that wrapper
CapturedBelow ==
    IF installs = <<>> THEN Len(installs) ELSE installs[Len(installs)].nativeParse

\* line 115: const nativeParse = JSON.parse, the function current at install
\* time, which is the wrapper of the latest install when there is one
CapturedParse == Len(installs)

\* lines 115 and 138 of a further injection, with propsToRemove = props and
\* no requiredInitialProps
StackedJsonPrune(props) ==
    /\ stPc = "ready"
    /\ Len(installs) < MaxInstalls
    /\ installs' = Append(installs, [props |-> props, nativeParse |-> CapturedParse])
    /\ UNCHANGED <<stPc, stArg, stRet, stHits, stNative>>

\* JSON.parse function number k applied to a text the native parser turns
\* into r: 0 is the native parser, k > 0 the parseWrapper of install k
\* (lines 117-136)
RECURSIVE Invoke(_, _)
Invoke(k, r) ==
    IF k = 0 THEN [val |-> r, hits |-> <<>>, native |-> 1]
    ELSE LET inner == Invoke(installs[k].nativeParse, r)
             paths == SplitPaths(installs[k].props)
         IN  IF inner.val = Throws THEN inner
             ELSE IF Len(paths) = 0 THEN inner
             ELSE IF IsFalse(isPruningNeeded(inner.val)) THEN inner
             ELSE [val    |-> Prune(inner.val, paths, 1),
                   hits   |-> Append(inner.hits, k),
                   native |-> inner.native]

\* one call of the current JSON.parse
StackedParse(r) ==
    /\ stPc = "ready"
    /\ stPc' = "called"
    /\ stArg' = r
    /\ \E out \in {Invoke(Len(installs), r)} :
           /\ stRet' = out.val
           /\ stHits' = out.hits
           /\ stNative' = out.native
    /\ UNCHANGED installs

\* the caller takes the result
StackedReturn ==
    /\ stPc = "called"
    /\ stPc' = "ready"
    /\ stArg' = NoValue
    /\ stRet' = NoValue
    /\ stHits' = <<>>
    /\ stNative' = 0
    /\ UNCHANGED installs

\* the prune lists of the injections
StackArgs ==
    { <<"a">>, <<"b">>, <<"a", ".", "b">>, <<"*", ".", "b">>,
      <<"a", ".", "*", ".", "b">>, <<"a", ".", "a", " ", "b">> }

InitStack ==
    /\ installs = <<>>
    /\ stPc = "ready"
    /\ stArg = NoValue
    /\ stRet = NoValue
    /\ stHits = <<>>
    /\ stNative = 0
    /\ ClickIdle
    /\ PruneIdle
    /\ RafIdle
    /\ AttrIdle

NextStack ==
    \/ (\E props \in StackArgs : StackedJsonPrune(props)) /\ UNCHANGED notStackVars
    \/ (\E r \in Roots \cup {Throws} : StackedParse(r)) /\ UNCHANGED notStackVars
    \/ StackedReturn /\ UNCHANGED notStackVars

SpecStack == InitStack /\ [][NextStack]_vars

(***************************************************************************)
(* Claims about stacked json-prune installs                                *)
(***************************************************************************)

\* the prune lists of all installs, in install order, as one list of paths
RECURSIVE AllPaths(_)
AllPaths(k) ==
    IF k = 0 THEN <<>> ELSE AllPaths(k - 1) \o SplitPaths(installs[k].props)

\* the locations of the prune paths that still hold a value in root
StillThere(root) ==
    UNION { {l \in Resolved(root, AllPaths(Len(installs))[i], TRUE) :
                l.prop \in DOMAIN GetAt(root, l.base).f}
            : i \in 1..Len(AllPaths(Len(installs))) }

\* C25: after installs with prune lists P1, P2 (no required paths), one
\* JSON.parse call invokes the native parser exactly once, prunes P1 before P2,
\* returns the object with the locations of both removed, and calls hit once
\* per install, in install order; an error of the native parser reaches the
\* caller unchanged.
C25_StackedInstalls ==
    (stPc = "called" /\ Len(installs) >= 2)
        => /\ stNative = 1
           /\ stArg = Throws => (stRet = Throws /\ stHits = <<>>)
           /\ (stArg # Throws /\ RootTruthy(stArg))
                 => /\ stHits = [i \in 1..Len(installs) |-> i]
                    /\ stRet = Prune(stArg, AllPaths(Len(installs)), 1)
                    /\ StillThere(stRet) = {}

\* {a: {b: 1}, b: 1} after installs 'a.b' and 'b': both locations are removed
C25_Witness ==
    /\ stPc = "called"
    /\ installs = << [props |-> <<"a", ".", "b">>, nativeParse |-> 0],
                     [props |-> <<"b">>, nativeParse |-> 1] >>
    /\ stArg = Obj([k \in Keys |-> IF k = <<"a">> THEN ObjB ELSE Num1])
    /\ stRet = Obj([k \in {<<"a">>} |-> Obj(<<>>)])
    /\ stHits = <<1, 2>>
    /\ stNative = 1

====
